---- MODULE Spec2Model ----
(***************************************************************************)
(* Model of espnet2/bin/svs_inference.py: the SingingGenerate wrapper      *)
(* (construction and __call__) and the batch runner inference().           *)
(*                                                                         *)
(* Python values are modelled as follows.  A tensor is an opaque string   *)
(* tag ("fg", "fgd", "att2", ...); the Python value None is the string     *)
(* "None"; a key that a dict does not hold is the string "absent".  A      *)
(* dict with a fixed key universe (output_dict) is a record over all its   *)
(* possible keys; a dict whose key set matters (decode_conf) is a function *)
(* whose DOMAIN is the key set.  An Optional dict argument is <<>> for     *)
(* None and <<d>> for the dict d.  A raised exception is the string naming *)
(* its class, "None" when nothing was raised.                              *)
(***************************************************************************)
EXTENDS Naturals, Sequences, FiniteSets, TLC

VARIABLES
    gpc,            \* position of the SingingGenerate client: "new" | "ready" | "failed"
    singingGenerate,\* the SingingGenerate instance (fields of self)
    init_conf,      \* history: self.decode_conf as it was when __init__ returned
    ncalls,         \* history: number of __call__ invocations so far
    last,           \* history: arguments and outcome of the latest __call__
    rpc,            \* position of inference(): "check" | "build_model" |
                    \* "build_loader" | "open" | "STREAMING" | "FINALIZE" |
                    \* "DONE" | "ABORTED"
    args,           \* the arguments of inference()
    model_built,    \* SingingGenerate(...) has been constructed by inference()
    loader_built,   \* build_streaming_iterator has been called
    dirs,           \* the channel directories that exist under output_dir
    files,          \* the index/text files that exist under output_dir
    open_writers,   \* the writers of the with statement that are open
    records,        \* per sink, the utterances (by position) recorded in it
    idx,            \* number of (keys, batch) pairs the loader has yielded
    output_dict,    \* the local output_dict: <<>> while unbound, else <<d>>
    call_exc,       \* history: the exception the latest singingGenerate(...)
                    \* call of the loop raised, "None" if it returned
    pair,           \* history: the latest (keys, batch) pair the loader
                    \* yielded and the keyword arguments the loop passed
                    \* to singingGenerate(...) for it
    raised,         \* the exception that ended inference(): [exc, at, idx]
    tpc,            \* position of the reshaping client: "input" | "applied"
    tin,            \* the flat feature and the settings it is reshaped under
    tout            \* the value handed to the vocoder for tin

gvars == <<gpc, init_conf, ncalls, last>>

rvars == <<rpc, args, model_built, loader_built, dirs, files, open_writers,
           records, idx, output_dict, call_exc, pair, raised>>

tvars == <<tpc, tin, tout>>

vars == <<gpc, singingGenerate, init_conf, ncalls, last, rpc, args,
          model_built, loader_built, dirs, files, open_writers, records, idx,
          output_dict, call_exc, pair, raised, tpc, tin, tout>>

(***************************************************************************)
(* dict helpers                                                            *)
(***************************************************************************)

\* dict.get(k) is None: the key is missing or holds None
GetIsNone(d, k) == d[k] \in {"absent", "None"}

\* a.update(b) on a copy of a: keys of b win, other keys of a are kept
DictUpdate(a, b) ==
    [k \in (DOMAIN a) \cup (DOMAIN b) |-> IF k \in DOMAIN b THEN b[k] ELSE a[k]]

EmptyDict == [k \in {} |-> "None"]

(***************************************************************************)
(* SingingGenerate.__init__                                                *)
(***************************************************************************)

\* isinstance(self.svs, VITS)
IsVITS(svs) == svs.variant = "VITS"

\* isinstance(self.svs, singing_tacotron)
IsSingingTacotron(svs) == svs.variant = "singing_tacotron"

\* DecodeConfInit without the isinstance(self.svs, VITS) test
DecodeConfInitNoVariantTest(svs, a) ==
    LET base == DictUpdate(EmptyDict,
                    [use_teacher_forcing |-> a.use_teacher_forcing,
                     noise_scale         |-> a.noise_scale,
                     noise_scale_dur     |-> a.noise_scale_dur])
    IN  IF IsSingingTacotron(svs)
        THEN DictUpdate(base, [threshold          |-> a.threshold,
                               maxlenratio        |-> a.maxlenratio,
                               minlenratio        |-> a.minlenratio,
                               use_att_constraint |-> a.use_att_constraint,
                               use_dynamic_filter |-> a.use_dynamic_filter,
                               forward_window     |-> a.forward_window,
                               backward_window    |-> a.backward_window])
        ELSE base

\* "setup decoding config": the dict stored as self.decode_conf
DecodeConfInit(svs, a) ==
    LET base == DictUpdate(EmptyDict,
                    [use_teacher_forcing |-> a.use_teacher_forcing])
        flow == IF IsVITS(svs)
                THEN DictUpdate(base, [noise_scale     |-> a.noise_scale,
                                       noise_scale_dur |-> a.noise_scale_dur])
                ELSE base
    IN  IF IsSingingTacotron(svs)
        THEN DictUpdate(flow, [threshold          |-> a.threshold,
                               maxlenratio        |-> a.maxlenratio,
                               minlenratio        |-> a.minlenratio,
                               use_att_constraint |-> a.use_att_constraint,
                               use_dynamic_filter |-> a.use_dynamic_filter,
                               forward_window     |-> a.forward_window,
                               backward_window    |-> a.backward_window])
        ELSE flow

\* the exception __init__ raises for its arguments, "None" when it returns
InitRaises(a) ==
    IF a.svs_task \in {"svs", "gan_svs"} THEN "None" ELSE "ValueError"

\* the fields of self when __init__ returns; svs is the model the task
\* class builds from train_config/model_file
SingingGenerateInit(svs, a) ==
    [svs                     |-> svs,
     use_teacher_forcing     |-> a.use_teacher_forcing,
     vocoder                 |-> IF a.vocoder_checkpoint # "None" THEN "vocoder"
                                 ELSE "None",
     prefer_normalized_feats |-> a.prefer_normalized_feats,
     discrete_token_layers   |-> a.discrete_token_layers,
     mix_type                |-> a.mix_type,
     decode_conf             |-> DecodeConfInit(svs, a)]

\* property use_sids
use_sids(self) == self.svs.spks # "None"

\* property use_lids
use_lids(self) == self.svs.langs # "None"

\* property use_spembs
use_spembs(self) == self.svs.spk_embed_dim # "None"

(***************************************************************************)
(* SingingGenerate.__call__                                                *)
(***************************************************************************)

\* the optional tensor arguments of __call__ other than text
OptionalSlots == {"singing", "label", "midi", "duration_phn",
                  "duration_ruled_phn", "duration_syb", "phn_cnt", "slur",
                  "pitch", "energy", "spembs", "sids", "lids",
                  "discrete_token"}

\* the fields preprocess_fn returns, which overwrite the arguments
PreprocessedSlots == {"label", "midi", "duration_phn", "duration_ruled_phn",
                      "duration_syb", "phn_cnt", "slur"}

\* CheckInputs without the test of lids
CheckInputsNoLids(self, a) ==
    IF use_sids(self) /\ "sids" \notin a.slots THEN "RuntimeError"
    ELSE IF use_spembs(self) /\ "spembs" \notin a.slots THEN "RuntimeError"
    ELSE "None"

\* "check inputs": the exception the three checks raise, "None" if they pass.
\* a.slots is the set of optional arguments that are not None.
CheckInputs(self, a) ==
    IF use_sids(self) /\ "sids" \notin a.slots THEN "RuntimeError"
    ELSE IF use_lids(self) /\ "lids" \notin a.slots THEN "RuntimeError"
    ELSE IF use_spembs(self) /\ "spembs" \notin a.slots THEN "RuntimeError"
    ELSE "None"

\* isinstance(text, Dict)
TextIsDict(a) == a.text_kind \in {"dict_label", "dict_text"}

\* "prepare batch": the keyword names of the batch handed to the model
PrepareBatch(a) ==
    {"text"} \cup a.slots \cup (IF TextIsDict(a) THEN PreprocessedSlots ELSE {})

\* cfg: self.decode_conf, or a copy of it updated with the decode_conf argument
MergeConf(stored, override) ==
    IF override = <<>> THEN stored ELSE DictUpdate(stored, override[1])

\* StoredConfAfterCall when cfg.update is applied to self.decode_conf itself
\* (no copy)
StoredConfUpdatedInPlace(stored, override) == MergeConf(stored, override)

\* what the statements that build cfg leave in self.decode_conf
StoredConfAfterCall(stored, override) == stored

\* SelectInputFeat without the prefer_normalized_feats test
SelectInputFeatIgnoresPreference(self, out) ==
    IF GetIsNone(out, "feat_gen_denorm")
    THEN IF out.feat_gen = "absent"
         THEN [raised |-> "KeyError", feat |-> "None"]
         ELSE [raised |-> "None", feat |-> out.feat_gen]
    ELSE [raised |-> "None", feat |-> out.feat_gen_denorm]

\* the feature chosen for the vocoder: [raised, feat]
SelectInputFeat(self, out) ==
    IF self.prefer_normalized_feats \/ GetIsNone(out, "feat_gen_denorm")
    THEN IF out.feat_gen = "absent"
         THEN [raised |-> "KeyError", feat |-> "None"]
         ELSE [raised |-> "None", feat |-> out.feat_gen]
    ELSE [raised |-> "None", feat |-> out.feat_gen_denorm]

\* the discrete_token_layers > 1 block: [raised, view] where view names the
\* layout of the tensor handed on ("flat" is the tensor as selected)
ReshapeLayers(self, feat, use_singomd) ==
    IF self.discrete_token_layers > 1
    THEN IF self.mix_type \in {"frame", "sequence"} /\ feat = "None"
         THEN [raised |-> "AttributeError", view |-> "flat"]
         ELSE LET view == IF self.mix_type \in {"frame", "sequence"}
                          THEN self.mix_type ELSE "flat"
              IN  IF use_singomd
                  THEN IF feat = "None"
                       THEN [raised |-> "TypeError", view |-> view]
                       ELSE IF view = "flat"
                       THEN [raised |-> "IndexError", view |-> view]
                       ELSE [raised |-> "None",
                             view |-> IF view = "frame" THEN "singomd_frame"
                                      ELSE "singomd_sequence"]
                  ELSE [raised |-> "None", view |-> view]
    ELSE [raised |-> "None", view |-> "flat"]

\* the pitch branch: the exception raised before the vocoder is called
PitchBranchRaises(out, feat, view) ==
    IF GetIsNone(out, "pitch") THEN "None"
    ELSE IF out.pitch # "pitch_1d" THEN "AssertionError"
    ELSE IF feat = "None" \/ view \in {"singomd_frame", "singomd_sequence"}
         THEN "AttributeError"
    ELSE "None"

\* "apply vocoder (mel-to-wav)": [raised, vocoder_calls, out]
ApplyVocoder(self, out, use_singomd) ==
    LET sel == SelectInputFeat(self, out)
        rs  == ReshapeLayers(self, sel.feat, use_singomd)
        pr  == PitchBranchRaises(out, sel.feat, rs.view)
        arg == [feat  |-> sel.feat, view |-> rs.view,
                pitch |-> IF GetIsNone(out, "pitch") THEN "omitted"
                          ELSE out.pitch]
    IN  IF sel.raised # "None"
        THEN [raised |-> sel.raised, vocoder_calls |-> <<>>, out |-> out]
        ELSE IF rs.raised # "None"
        THEN [raised |-> rs.raised, vocoder_calls |-> <<>>, out |-> out]
        ELSE IF pr # "None"
        THEN [raised |-> pr, vocoder_calls |-> <<>>, out |-> out]
        ELSE [raised |-> "None", vocoder_calls |-> <<arg>>,
              out |-> [out EXCEPT !.wav = "wav_vocoder"]]

\* the statements after model.inference: duration/focus_rate, then the
\* vocoder: [raised, vocoder_calls, out]
PostProcess(self, out, use_singomd) ==
    IF ~GetIsNone(out, "att_w")
    THEN [raised |-> "None", vocoder_calls |-> <<>>,
          out |-> [out EXCEPT !.duration = "duration",
                              !.focus_rate = "focus_rate"]]
    ELSE LET o == [out EXCEPT !.duration = "None", !.focus_rate = "None"]
         IN  IF self.vocoder # "None"
             THEN ApplyVocoder(self, o, use_singomd)
             ELSE [raised |-> "None", vocoder_calls |-> <<>>, out |-> o]

\* __call__ as a whole.  a: the arguments; m: what the acoustic model does
\* when invoked ([raises, out]).  The result records the collaborators'
\* invocations, the exception raised, the returned dict (<<>> when an
\* exception propagates) and self.decode_conf as the call leaves it.
SingingGenerateCall(self, a, m) ==
    LET chk   == CheckInputs(self, a)
        batch == PrepareBatch(a)
        cfg   == MergeConf(self.decode_conf, a.decode_conf)
        after == StoredConfAfterCall(self.decode_conf, a.decode_conf)
        pre   == IF TextIsDict(a) THEN 1 ELSE 0
        call  == <<[batch |-> batch, cfg |-> cfg]>>
        post  == PostProcess(self, m.out, a.use_singomd)
    IN  IF chk # "None"
        THEN [raised |-> chk, preprocess_calls |-> 0, model_calls |-> <<>>,
              vocoder_calls |-> <<>>, output_dict |-> <<>>,
              decode_conf |-> self.decode_conf]
        ELSE IF batch \cap DOMAIN cfg # {}
        THEN [raised |-> "TypeError", preprocess_calls |-> pre,
              model_calls |-> <<>>, vocoder_calls |-> <<>>,
              output_dict |-> <<>>, decode_conf |-> after]
        ELSE IF m.raises # "None"
        THEN [raised |-> m.raises, preprocess_calls |-> pre,
              model_calls |-> call, vocoder_calls |-> <<>>,
              output_dict |-> <<>>, decode_conf |-> after]
        ELSE [raised |-> post.raised, preprocess_calls |-> pre,
              model_calls |-> call, vocoder_calls |-> post.vocoder_calls,
              output_dict |-> IF post.raised = "None" THEN <<post.out>>
                              ELSE <<>>,
              decode_conf |-> after]

(***************************************************************************)
(* Bounded input universes                                                 *)
(***************************************************************************)

\* bound on the number of __call__ invocations followed in one behaviour
MaxCalls == 2

Variants == {"VITS", "singing_tacotron", "other"}

\* the acoustic models: the variant and the three attributes the use_*
\* properties read
Models ==
    [variant : Variants, spks : {"None", "4"}, langs : {"None", "2"},
     spk_embed_dim : {"None", "192"}]

PlainModel ==
    [variant |-> "other", spks |-> "None", langs |-> "None",
     spk_embed_dim |-> "None"]

\* the keyword defaults of __init__
DefaultArgs ==
    [svs_task |-> "svs", threshold |-> "0.5", minlenratio |-> "0.0",
     maxlenratio |-> "10.0", use_teacher_forcing |-> "False",
     use_att_constraint |-> "False", use_dynamic_filter |-> "False",
     backward_window |-> "2", forward_window |-> "4",
     noise_scale |-> "0.667", noise_scale_dur |-> "0.8",
     vocoder_checkpoint |-> "None", discrete_token_layers |-> 1,
     mix_type |-> "frame", prefer_normalized_feats |-> FALSE]

\* the (model, constructor arguments) pairs explored: every model with and
\* without a vocoder; the plain model under every setting of the vocoder
\* related flags; every task name
Constructions ==
    {<<svs, [DefaultArgs EXCEPT !.vocoder_checkpoint = v]>> :
        svs \in Models, v \in {"None", "vocoder.pkl"}}
    \cup
    {<<PlainModel, [DefaultArgs EXCEPT !.use_teacher_forcing = u,
                                       !.vocoder_checkpoint = v,
                                       !.prefer_normalized_feats = p,
                                       !.discrete_token_layers = l,
                                       !.mix_type = x]>> :
        u \in {"False", "True"}, v \in {"None", "vocoder.pkl"},
        p \in BOOLEAN, l \in {1, 2}, x \in {"frame", "sequence"}}
    \cup
    {<<PlainModel, [DefaultArgs EXCEPT !.svs_task = t]>> :
        t \in {"svs", "gan_svs", "unsupported"}}

\* what model.inference may return
ModelOutputs ==
    [feat_gen : {"absent", "None", "fg"}, feat_gen_denorm : {"absent", "fgd"},
     att_w : {"None", "att2", "att3", "att4"}, prob : {"None", "prob"},
     wav : {"absent", "wav_model"}, pitch : {"None", "pitch_1d", "pitch_2d"},
     duration : {"absent"}, focus_rate : {"absent"}]

\* a feature-path output and an end-to-end waveform output
OutFeat ==
    [feat_gen |-> "fg", feat_gen_denorm |-> "fgd", att_w |-> "None",
     prob |-> "None", wav |-> "absent", pitch |-> "None",
     duration |-> "absent", focus_rate |-> "absent"]

OutWav ==
    [feat_gen |-> "absent", feat_gen_denorm |-> "absent", att_w |-> "None",
     prob |-> "None", wav |-> "wav_model", pitch |-> "None",
     duration |-> "absent", focus_rate |-> "absent"]

GenOutputs ==
    {o \in ModelOutputs : o.prob = "None" /\ o.att_w \in {"None", "att4"}}

\* the decode_conf arguments explored: None, {}, an override of a VITS key,
\* an override of the universal key plus a new key, a key that is also a
\* batch keyword
Overrides ==
    {<<>>, <<EmptyDict>>, <<[noise_scale |-> "0.333"]>>,
     <<[use_teacher_forcing |-> "True", extra_option |-> "1"]>>,
     <<[text |-> "clash"]>>}

SpeakerSlots == {"sids", "lids", "spembs"}

DefaultCall ==
    [text_kind |-> "tensor", slots |-> SpeakerSlots, decode_conf |-> <<>>,
     use_singomd |-> FALSE]

\* the (arguments, model behaviour) pairs explored: every presence pattern
\* of the speaker slots under every kind of text; every override with a
\* model that returns or raises; every model output; use_singomd
CallInputs ==
    {<<[DefaultCall EXCEPT !.slots = s, !.text_kind = t],
       [raises |-> "None", out |-> o]>> :
        s \in SUBSET SpeakerSlots,
        t \in {"tensor", "dict_label", "dict_text"}, o \in {OutFeat, OutWav}}
    \cup
    {<<[DefaultCall EXCEPT !.decode_conf = c], [raises |-> e, out |-> OutFeat]>> :
        c \in Overrides, e \in {"None", "ModelError"}}
    \cup
    {<<DefaultCall, [raises |-> "None", out |-> o]>> : o \in GenOutputs}
    \cup
    {<<[DefaultCall EXCEPT !.use_singomd = TRUE, !.slots = s],
       [raises |-> "None", out |-> o]>> :
        s \in {SpeakerSlots, SpeakerSlots \cup {"pitch", "discrete_token"}},
        o \in {OutFeat, [OutFeat EXCEPT !.pitch = "pitch_1d"]}}

(***************************************************************************)
(* A client that builds one SingingGenerate and calls it repeatedly        *)
(***************************************************************************)

NoCall ==
    [a |-> DefaultCall, m |-> [raises |-> "None", out |-> OutFeat],
     r |-> [raised |-> "None", preprocess_calls |-> 0, model_calls |-> <<>>,
            vocoder_calls |-> <<>>, output_dict |-> <<>>,
            decode_conf |-> EmptyDict]]

GenIdle ==
    /\ gpc = "new"
    /\ init_conf = EmptyDict
    /\ ncalls = 0
    /\ last = NoCall

\* SingingGenerate(**kwargs)
Construct ==
    /\ gpc = "new"
    /\ \E c \in Constructions :
        IF InitRaises(c[2]) # "None"
        THEN /\ gpc' = "failed"
             /\ UNCHANGED <<singingGenerate, init_conf>>
        ELSE /\ gpc' = "ready"
             /\ singingGenerate' = SingingGenerateInit(c[1], c[2])
             /\ init_conf' = DecodeConfInit(c[1], c[2])
    /\ UNCHANGED <<ncalls, last>>
    /\ UNCHANGED rvars
    /\ UNCHANGED tvars

\* singingGenerate(text, ..., decode_conf=...)
Call ==
    /\ gpc = "ready"
    /\ ncalls < MaxCalls
    /\ \E i \in CallInputs :
        \E r \in {SingingGenerateCall(singingGenerate, i[1], i[2])} :
            /\ last' = [a |-> i[1], m |-> i[2], r |-> r]
            /\ singingGenerate' =
                   [singingGenerate EXCEPT !.decode_conf = r.decode_conf]
    /\ ncalls' = ncalls + 1
    /\ UNCHANGED <<gpc, init_conf>>
    /\ UNCHANGED rvars
    /\ UNCHANGED tvars

(***************************************************************************)
(* inference(): output layout                                              *)
(***************************************************************************)

\* the directories created under output_dir
Channels == {"norm", "denorm", "speech_shape", "wav", "att_ws", "probs",
             "durations", "focus_rates"}

\* the things an utterance can be recorded in: the two npy archives, the
\* three text files, the attention and probability plots, the audio files
\* and the wav.scp index
Sinks == {"norm", "denorm", "speech_shape", "durations", "focus_rates",
          "att_ws", "probs", "wav_file", "wav_scp"}

\* the directory a sink lives in
DirOf(sink) == IF sink \in {"wav_file", "wav_scp"} THEN "wav" ELSE sink

\* the six context managers of the with statement, named by the file each
\* creates when it is opened
Writers == {"norm/feats.scp", "denorm/feats.scp", "speech_shape/speech_shape",
            "durations/durations", "focus_rates/focus_rates", "wav/wav.scp"}

\* the directory of a writer's file
WriterDir(w) ==
    CASE w = "norm/feats.scp" -> "norm"
      [] w = "denorm/feats.scp" -> "denorm"
      [] w = "speech_shape/speech_shape" -> "speech_shape"
      [] w = "durations/durations" -> "durations"
      [] w = "focus_rates/focus_rates" -> "focus_rates"
      [] w = "wav/wav.scp" -> "wav"

NoRecords == [s \in Sinks |-> {}]

\* WithExit for writers opened without a with statement and closed after
\* the loop: an exception leaves them open
WithExitLeaksOnError(open, exc) == IF exc = "None" THEN {} ELSE open

\* the with statement's exit: every context manager is closed, whether the
\* block ended normally (exc = "None") or by an exception
WithExit(open, exc) == {}

(***************************************************************************)
(* inference(): one iteration of the for loop                              *)
(***************************************************************************)

\* att_w.ndim of the attention tensors the model can return
Ndim(att_w) ==
    CASE att_w = "att2" -> 2
      [] att_w = "att3" -> 3
      [] att_w = "att4" -> 4

\* the writes of one iteration for the dict out returned by the call:
\* [raised, written], written being the sinks that got the utterance before
\* the iteration ended.  sf_fails: soundfile.write raises for this utterance.
WriteOutputs(out, sf_fails) ==
    LET feat == IF ~GetIsNone(out, "feat_gen")
                THEN [raised |-> "None",
                      written |-> {"norm", "speech_shape"} \cup
                          (IF ~GetIsNone(out, "feat_gen_denorm")
                           THEN {"denorm"} ELSE {})]
                ELSE IF out.wav = "absent"
                THEN [raised |-> "KeyError", written |-> {}]
                ELSE IF out.wav = "None"
                THEN [raised |-> "AttributeError", written |-> {}]
                ELSE [raised |-> "None", written |-> {}]
        dur  == IF ~GetIsNone(out, "duration") THEN {"durations"} ELSE {}
        foc  == IF ~GetIsNone(out, "focus_rate") THEN {"focus_rates"} ELSE {}
        att  == IF ~GetIsNone(out, "att_w")
                THEN IF Ndim(out.att_w) = 2 \/ Ndim(out.att_w) = 4
                     THEN [raised |-> "None", written |-> {"att_ws"}]
                     ELSE [raised |-> "RuntimeError", written |-> {}]
                ELSE [raised |-> "None", written |-> {}]
        prob == IF ~GetIsNone(out, "prob") THEN {"probs"} ELSE {}
        wav  == IF ~GetIsNone(out, "wav")
                THEN IF sf_fails
                     THEN [raised |-> "SoundFileError", written |-> {}]
                     ELSE [raised |-> "None",
                           written |-> {"wav_file", "wav_scp"}]
                ELSE [raised |-> "None", written |-> {}]
        upto2 == feat.written \cup dur \cup foc
        upto4 == upto2 \cup att.written \cup prob
    IN  IF feat.raised # "None"
        THEN [raised |-> feat.raised, written |-> feat.written]
        ELSE IF att.raised # "None"
        THEN [raised |-> att.raised, written |-> upto2]
        ELSE IF wav.raised # "None"
        THEN [raised |-> wav.raised, written |-> upto4]
        ELSE [raised |-> "None", written |-> upto4 \cup wav.written]

\* the batch of a yielded pair: each field holds bs sequences, sequence i
\* of field k being <<k, i>>
Batch(item) ==
    [k \in item.fields |-> [i \in 1..item.bs |-> <<k, i>>]]

\* {k: v[0] for k, v in batch.items() if not k.endswith("_lengths")}
StripBatch(item) ==
    [k \in {f \in item.fields : f \notin item.length_fields} |->
        Batch(item)[k][1]]

\* the outcome of an iteration that ends before singingGenerate is called
EndsBeforeCall(exc, at) ==
    [raised |-> exc, at |-> at, written |-> {}, bound |-> FALSE,
     out |-> OutFeat, call |-> {}, synth |-> "None", called |-> FALSE,
     batch |-> EmptyDict]

\* LoopBody with the call wrapped in a handler that skips the utterance:
\* an exception of the call does not end the loop
LoopBodySkipsFailed(self, use_singomd, item, m, sf_fails) ==
    LET stripped == DOMAIN StripBatch(item)
        a == [text_kind |-> "tensor", slots |-> stripped \ {"text"},
              decode_conf |-> <<>>, use_singomd |-> use_singomd]
        r == SingingGenerateCall(self, a, m)
        w == WriteOutputs(r.output_dict[1], sf_fails)
    IN  IF item.bs # 1
        THEN EndsBeforeCall("AssertionError", "assert")
        ELSE IF item.nkeys = 0
        THEN EndsBeforeCall("IndexError", "key")
        ELSE IF r.raised # "None"
        THEN [raised |-> "None", at |-> "None", written |-> {},
              bound |-> FALSE, out |-> OutFeat, call |-> stripped,
              synth |-> r.raised, called |-> TRUE,
              batch |-> StripBatch(item)]
        ELSE [raised |-> w.raised,
              at |-> IF w.raised = "None" THEN "None" ELSE "write",
              written |-> w.written, bound |-> TRUE,
              out |-> r.output_dict[1], call |-> stripped,
              synth |-> "None", called |-> TRUE,
              batch |-> StripBatch(item)]

\* LoopBody without the assertion on _bs: a batch of several sequences is
\* cut to its first one and synthesized
LoopBodyNoBatchAssert(self, use_singomd, item, m, sf_fails) ==
    LET stripped == DOMAIN StripBatch(item)
        a == [text_kind |-> "tensor", slots |-> stripped \ {"text"},
              decode_conf |-> <<>>, use_singomd |-> use_singomd]
        r == SingingGenerateCall(self, a, m)
        w == WriteOutputs(r.output_dict[1], sf_fails)
    IN  IF item.nkeys = 0
        THEN EndsBeforeCall("IndexError", "key")
        ELSE IF r.raised # "None"
        THEN [raised |-> r.raised, at |-> "synthesize", written |-> {},
              bound |-> FALSE, out |-> OutFeat, call |-> stripped,
              synth |-> r.raised, called |-> TRUE,
              batch |-> StripBatch(item)]
        ELSE [raised |-> w.raised,
              at |-> IF w.raised = "None" THEN "None" ELSE "write",
              written |-> w.written, bound |-> TRUE,
              out |-> r.output_dict[1], call |-> stripped,
              synth |-> "None", called |-> TRUE,
              batch |-> StripBatch(item)]

\* the body of the for loop for one (keys, batch) pair.  item: what the
\* loader yielded ([nkeys, bs, fields, length_fields]); m: what the acoustic
\* model does; sf_fails as above.  Result: [raised, at, written, bound, out,
\* call, synth, called, batch]: the exception and the statement group that
\* raised it, the sinks written, whether output_dict was (re)bound and to
\* what, the keyword names the call received, the exception the call itself
\* raised, whether singingGenerate was called and with which batch.
LoopBody(self, use_singomd, item, m, sf_fails) ==
    LET stripped == DOMAIN StripBatch(item)
        a == [text_kind |-> "tensor", slots |-> stripped \ {"text"},
              decode_conf |-> <<>>, use_singomd |-> use_singomd]
        r == SingingGenerateCall(self, a, m)
        w == WriteOutputs(r.output_dict[1], sf_fails)
    IN  IF item.bs # 1
        THEN EndsBeforeCall("AssertionError", "assert")
        ELSE IF item.nkeys = 0
        THEN EndsBeforeCall("IndexError", "key")
        ELSE IF r.raised # "None"
        THEN [raised |-> r.raised, at |-> "synthesize", written |-> {},
              bound |-> FALSE, out |-> OutFeat, call |-> stripped,
              synth |-> r.raised, called |-> TRUE,
              batch |-> StripBatch(item)]
        ELSE [raised |-> w.raised,
              at |-> IF w.raised = "None" THEN "None" ELSE "write",
              written |-> w.written, bound |-> TRUE,
              out |-> r.output_dict[1], call |-> stripped,
              synth |-> "None", called |-> TRUE,
              batch |-> StripBatch(item)]

(***************************************************************************)
(* inference(): "remove files if those are not included in output dict"   *)
(***************************************************************************)

\* the seven tests after the with statement, in order: the output_dict key
\* tested and the directory removed
PruneOrder ==
    << [key |-> "feat_gen",        dir |-> "norm"],
       [key |-> "feat_gen_denorm", dir |-> "denorm"],
       [key |-> "att_w",           dir |-> "att_ws"],
       [key |-> "duration",        dir |-> "durations"],
       [key |-> "focus_rate",      dir |-> "focus_rates"],
       [key |-> "prob",            dir |-> "probs"],
       [key |-> "wav",             dir |-> "wav"] >>

\* shutil.rmtree(d) on the state st = [raised, dirs, files, records]
Rmtree(st, d) ==
    IF d \notin st.dirs
    THEN [st EXCEPT !.raised = "FileNotFoundError"]
    ELSE [raised  |-> "None",
          dirs    |-> st.dirs \ {d},
          files   |-> {f \in st.files : WriterDir(f) # d},
          records |-> [s \in Sinks |->
                          IF DirOf(s) = d THEN {} ELSE st.records[s]]]

\* tests i.. of PruneOrder on st, for the bound output_dict out
RECURSIVE PruneFrom(_, _, _)
PruneFrom(i, st, out) ==
    IF i > Len(PruneOrder) \/ st.raised # "None" THEN st
    ELSE PruneFrom(i + 1,
                   IF GetIsNone(out, PruneOrder[i].key)
                   THEN Rmtree(st, PruneOrder[i].dir) ELSE st,
                   out)

\* the statements after the with block; od is the local output_dict
Prune(st, od) ==
    IF od = <<>> THEN [st EXCEPT !.raised = "UnboundLocalError"]
    ELSE PruneFrom(1, st, od[1])

(***************************************************************************)
(* inference(): the run                                                    *)
(***************************************************************************)

\* bound on the number of utterances the loader yields in one run
MaxUtts == 2

\* the arguments of inference() that the model reads, at the command line's
\* defaults
BaseRun ==
    [batch_size |-> 1, ngpu |-> 0, svs_task |-> "svs",
     vocoder_checkpoint |-> "None", use_teacher_forcing |-> "False",
     noise_scale |-> "0.667", noise_scale_dur |-> "0.8",
     discrete_token_layers |-> 1, mix_type |-> "frame",
     use_singomd |-> FALSE]

\* the argument sets explored: batch sizes and device counts around the
\* limits; a vocoder; an unknown task
RunArgs ==
    {[BaseRun EXCEPT !.batch_size = b, !.ngpu = g] :
        b \in {1, 2}, g \in {0, 1, 2}}
    \cup {[BaseRun EXCEPT !.vocoder_checkpoint = "vocoder.pkl"],
          [BaseRun EXCEPT !.svs_task = "unsupported"]}

\* the acoustic models a run may load
RunModels == {PlainModel, [PlainModel EXCEPT !.spks = "4"]}

\* the keyword arguments inference() passes to SingingGenerate
ConstructorArgs(a) ==
    [DefaultArgs EXCEPT !.svs_task = a.svs_task,
                        !.use_teacher_forcing = a.use_teacher_forcing,
                        !.noise_scale = a.noise_scale,
                        !.noise_scale_dur = a.noise_scale_dur,
                        !.vocoder_checkpoint = a.vocoder_checkpoint,
                        !.discrete_token_layers = a.discrete_token_layers,
                        !.mix_type = a.mix_type]

\* what the loader may yield: nkeys utterance ids and a batch whose fields
\* hold bs sequences each; length_fields are the fields whose name ends in
\* "_lengths"
LoaderItems ==
    {[nkeys |-> n, bs |-> b,
      fields |-> {"text", "text_lengths", "label", "label_lengths"} \cup s,
      length_fields |-> {"text_lengths", "label_lengths"}] :
        n \in {0, 1, 2}, b \in {1, 2}, s \in {{}, {"sids"}}}

\* before any pair was yielded
NoPair ==
    [item |-> [nkeys |-> 0, bs |-> 0, fields |-> {}, length_fields |-> {}],
     called |-> FALSE, batch |-> EmptyDict]

\* what the acoustic model may return to a run
RunOutputs == {o \in ModelOutputs : o.pitch = "None"}

\* a well-formed single-utterance pair that carries a speaker id
GoodItem ==
    [nkeys |-> 1, bs |-> 1,
     fields |-> {"text", "text_lengths", "label", "label_lengths", "sids"},
     length_fields |-> {"text_lengths", "label_lengths"}]

\* the (pair, model output, model exception, soundfile failure) inputs of
\* one iteration that are explored: every pair the loader may yield; a model
\* that raises; every model output, with and without a failing audio write
IterInputs ==
    {<<item, OutFeat, "None", FALSE>> : item \in LoaderItems}
    \cup {<<GoodItem, OutFeat, "ModelError", FALSE>>}
    \cup {<<GoodItem, o, "None", f>> : o \in RunOutputs, f \in BOOLEAN}

NotRaised == [exc |-> "None", at |-> "None", idx |-> 0]

RunIdle ==
    /\ rpc = "check"
    /\ args = BaseRun
    /\ model_built = FALSE
    /\ loader_built = FALSE
    /\ dirs = {}
    /\ files = {}
    /\ open_writers = {}
    /\ records = NoRecords
    /\ idx = 0
    /\ output_dict = <<>>
    /\ call_exc = "None"
    /\ pair = NoPair
    /\ raised = NotRaised

RunInit ==
    /\ rpc = "check"
    /\ args \in RunArgs
    /\ model_built = FALSE
    /\ loader_built = FALSE
    /\ dirs = {}
    /\ files = {}
    /\ open_writers = {}
    /\ records = NoRecords
    /\ idx = 0
    /\ output_dict = <<>>
    /\ call_exc = "None"
    /\ pair = NoPair
    /\ raised = NotRaised

\* CheckArgsRaises without the test of ngpu
CheckArgsRaisesBatchOnly(a) ==
    IF a.batch_size > 1 THEN "NotImplementedError" ELSE "None"

\* the exception the two tests at the top of inference() raise
CheckArgsRaises(a) ==
    IF a.batch_size > 1 THEN "NotImplementedError"
    ELSE IF a.ngpu > 1 THEN "NotImplementedError"
    ELSE "None"

\* the two tests at the top of inference()
CheckArgs ==
    /\ rpc = "check"
    /\ IF CheckArgsRaises(args) # "None"
       THEN /\ rpc' = "ABORTED"
            /\ raised' = [exc |-> CheckArgsRaises(args), at |-> "check",
                          idx |-> 0]
       ELSE /\ rpc' = "build_model"
            /\ UNCHANGED raised
    /\ UNCHANGED <<args, model_built, loader_built, dirs, files,
                   open_writers, records, idx, output_dict, call_exc, pair>>
    /\ UNCHANGED <<gvars, tvars, singingGenerate>>

\* "2. Build model"
BuildModel ==
    /\ rpc = "build_model"
    /\ \E svs \in RunModels :
        IF InitRaises(ConstructorArgs(args)) # "None"
        THEN /\ rpc' = "ABORTED"
             /\ raised' = [exc |-> InitRaises(ConstructorArgs(args)),
                           at |-> "build_model", idx |-> 0]
             /\ UNCHANGED <<singingGenerate, model_built>>
        ELSE /\ rpc' = "build_loader"
             /\ singingGenerate' =
                    SingingGenerateInit(svs, ConstructorArgs(args))
             /\ model_built' = TRUE
             /\ UNCHANGED raised
    /\ UNCHANGED <<args, loader_built, dirs, files, open_writers, records,
                   idx, output_dict, call_exc, pair>>
    /\ UNCHANGED <<gvars, tvars>>

\* "3. Build data-iterator"
BuildLoader ==
    /\ rpc = "build_loader"
    /\ loader_built' = TRUE
    /\ rpc' = "open"
    /\ UNCHANGED <<args, model_built, dirs, files, open_writers, records,
                   idx, output_dict, call_exc, pair, raised>>
    /\ UNCHANGED <<gvars, tvars, singingGenerate>>

\* the eight mkdir calls and the entry of the with statement
OpenChannels ==
    /\ rpc = "open"
    /\ dirs' = dirs \cup Channels
    /\ files' = files \cup Writers
    /\ open_writers' = Writers
    /\ rpc' = "STREAMING"
    /\ UNCHANGED <<args, model_built, loader_built, records, idx,
                   output_dict, call_exc, pair, raised>>
    /\ UNCHANGED <<gvars, tvars, singingGenerate>>

\* the loader yields a pair and the loop body runs on it
Iterate ==
    /\ rpc = "STREAMING"
    /\ idx < MaxUtts
    /\ \E i \in IterInputs :
        \E b \in {LoopBody(singingGenerate, args.use_singomd, i[1],
                           [raises |-> i[3], out |-> i[2]], i[4])} :
            /\ idx' = idx + 1
            /\ records' = [s \in Sinks |->
                              IF s \in b.written
                              THEN records[s] \cup {idx + 1} ELSE records[s]]
            /\ output_dict' = IF b.bound THEN <<b.out>> ELSE output_dict
            /\ call_exc' = b.synth
            /\ pair' = [item |-> i[1], called |-> b.called,
                        batch |-> b.batch]
            /\ IF b.raised # "None"
               THEN /\ rpc' = "ABORTED"
                    /\ raised' = [exc |-> b.raised, at |-> b.at,
                                  idx |-> idx + 1]
                    /\ open_writers' = WithExit(open_writers, b.raised)
               ELSE UNCHANGED <<rpc, raised, open_writers>>
    /\ UNCHANGED <<args, model_built, loader_built, dirs, files>>
    /\ UNCHANGED <<gvars, tvars, singingGenerate>>

\* the loader raises instead of yielding
LoaderRaises ==
    /\ rpc = "STREAMING"
    /\ rpc' = "ABORTED"
    /\ raised' = [exc |-> "LoaderError", at |-> "loader", idx |-> idx + 1]
    /\ open_writers' = WithExit(open_writers, "LoaderError")
    /\ UNCHANGED <<args, model_built, loader_built, dirs, files, records,
                   idx, output_dict, call_exc, pair>>
    /\ UNCHANGED <<gvars, tvars, singingGenerate>>

\* the loader is exhausted: the for loop and the with statement end
LoaderExhausted ==
    /\ rpc = "STREAMING"
    /\ rpc' = "FINALIZE"
    /\ open_writers' = WithExit(open_writers, "None")
    /\ UNCHANGED <<args, model_built, loader_built, dirs, files, records,
                   idx, output_dict, call_exc, pair, raised>>
    /\ UNCHANGED <<gvars, tvars, singingGenerate>>

\* the statements after the with block
Finalize ==
    /\ rpc = "FINALIZE"
    /\ \E st \in {Prune([raised |-> "None", dirs |-> dirs, files |-> files,
                         records |-> records], output_dict)} :
           /\ dirs' = st.dirs
           /\ files' = st.files
           /\ records' = st.records
           /\ IF st.raised # "None"
              THEN /\ rpc' = "ABORTED"
                   /\ raised' = [exc |-> st.raised, at |-> "FINALIZE",
                                 idx |-> idx]
              ELSE /\ rpc' = "DONE"
                   /\ UNCHANGED raised
    /\ UNCHANGED <<args, model_built, loader_built, open_writers, idx,
                   output_dict, call_exc, pair>>
    /\ UNCHANGED <<gvars, tvars, singingGenerate>>

(***************************************************************************)
(* The vocoder input as data: the discrete_token_layers block applied to   *)
(* a flat feature.  A 1-D tensor is [kind |-> "1d", shape, v], a 2-D       *)
(* tensor [kind |-> "2d", shape, m] with m[i][j] its element [i-1][j-1],   *)
(* the singomd dict [kind |-> "dict", d], an exception [kind |-> "raised", *)
(* exc].                                                                   *)
(***************************************************************************)

\* bounds on the length of the flat feature and on discrete_token_layers
MaxFeatLen == 6

MaxLayers == 3

\* x.view(-1, cols)
ViewRows(x, cols) ==
    IF Len(x) % cols # 0
    THEN [kind |-> "raised", exc |-> "RuntimeError"]
    ELSE LET r == Len(x) \div cols
         IN  [kind |-> "2d", shape |-> <<r, cols>>,
              m |-> [i \in 1..r |-> [j \in 1..cols |-> x[(i - 1) * cols + j]]]]

\* x.view(rows, -1)
ViewCols(x, rows) ==
    IF Len(x) % rows # 0
    THEN [kind |-> "raised", exc |-> "RuntimeError"]
    ELSE LET c == Len(x) \div rows
         IN  [kind |-> "2d", shape |-> <<rows, c>>,
              m |-> [i \in 1..rows |-> [j \in 1..c |-> x[(i - 1) * c + j]]]]

\* t.transpose(0, 1)
Transpose01(t) ==
    [kind |-> "2d", shape |-> <<t.shape[2], t.shape[1]>>,
     m |-> [i \in 1..t.shape[2] |-> [j \in 1..t.shape[1] |-> t.m[j][i]]]]

\* mix_type "frame": input_feat.view(-1, L)
FrameLayout(x, L) == ViewRows(x, L)

\* SequenceLayout that reshapes as for "frame" (no view(L, -1), no transpose)
SequenceLayoutAsFrame(x, L) == ViewRows(x, L)

\* mix_type "sequence": input_feat.view(L, -1).transpose(0, 1)
SequenceLayout(x, L) ==
    LET v == ViewCols(x, L)
    IN  IF v.kind = "raised" THEN v ELSE Transpose01(v)

\* resolution = [20, 40]
Resolution == <<20, 40>>

\* t[:, i].unsqueeze(1)[::step] for the 0-based column i - 1
StridedColumn(t, i, step) ==
    LET n == (t.shape[1] + step - 1) \div step
    IN  [kind |-> "2d", shape |-> <<n, 1>>,
         m |-> [k \in 1..n |-> <<t.m[(k - 1) * step + 1][i]>>]]

\* the use_singomd loop: feat_dict keyed by resolution
SingomdDict(t) ==
    IF t.kind = "raised" THEN t
    ELSE [kind |-> "dict",
          d |-> [rs \in {Resolution[i] : i \in 1..Len(Resolution)} |->
                    LET i == CHOOSE i \in 1..Len(Resolution) :
                                 Resolution[i] = rs
                    IN  StridedColumn(t, i, rs \div 20)]]

\* the tensor a layout name of ReshapeLayers stands for, for the flat
\* feature x and L layers
Realize(view, x, L) ==
    CASE view = "flat"             -> [kind |-> "1d", shape |-> <<Len(x)>>,
                                       v |-> x]
      [] view = "frame"            -> FrameLayout(x, L)
      [] view = "sequence"         -> SequenceLayout(x, L)
      [] view = "singomd_frame"    -> SingomdDict(FrameLayout(x, L))
      [] view = "singomd_sequence" -> SingomdDict(SequenceLayout(x, L))

\* input_feat as handed to the vocoder when the selected feature is the
\* flat tensor x
VocoderInput(self, x, use_singomd) ==
    LET rs == ReshapeLayers(self, "fg", use_singomd)
    IN  IF rs.raised # "None"
        THEN [kind |-> "raised", exc |-> rs.raised]
        ELSE Realize(rs.view, x, self.discrete_token_layers)

\* the flat features explored: all 0/1 sequences up to MaxFeatLen
FlatFeatures ==
    UNION {[1..n -> {0, 1}] : n \in 0..MaxFeatLen}

\* the settings explored
TensorInputs ==
    [x : FlatFeatures, discrete_token_layers : 1..MaxLayers,
     mix_type : {"frame", "sequence", "other"}, use_singomd : BOOLEAN]

NoTensor == [kind |-> "none"]

TensorIdle ==
    /\ tpc = "input"
    /\ tin = [x |-> <<>>, discrete_token_layers |-> 1, mix_type |-> "frame",
              use_singomd |-> FALSE]
    /\ tout = NoTensor

TensorInit ==
    /\ tpc = "input"
    /\ tin \in TensorInputs
    /\ tout = NoTensor

(***************************************************************************)
(* Specifications                                                          *)
(***************************************************************************)

NoInstance == SingingGenerateInit(PlainModel, DefaultArgs)

\* one run of inference()
Init == GenIdle /\ singingGenerate = NoInstance /\ RunInit /\ TensorIdle

Next ==
    \/ CheckArgs
    \/ BuildModel
    \/ BuildLoader
    \/ OpenChannels
    \/ Iterate
    \/ LoaderRaises
    \/ LoaderExhausted
    \/ Finalize

Spec == Init /\ [][Next]_vars

\* one SingingGenerate instance, constructed and then called repeatedly
GenInit == GenIdle /\ singingGenerate = NoInstance /\ RunIdle /\ TensorIdle

GenNext == Construct \/ Call

SpecGen == GenInit /\ [][GenNext]_vars

\* the vocoder block of one instance applied to one flat feature
ApplyReshape ==
    /\ tpc = "input"
    /\ tout' = VocoderInput(
                   [NoInstance EXCEPT
                       !.vocoder = "vocoder",
                       !.discrete_token_layers = tin.discrete_token_layers,
                       !.mix_type = tin.mix_type],
                   tin.x, tin.use_singomd)
    /\ tpc' = "applied"
    /\ UNCHANGED <<tin, gvars, singingGenerate, rvars>>

TensorSpecInit ==
    GenIdle /\ singingGenerate = NoInstance /\ RunIdle /\ TensorInit

TensorNext == ApplyReshape

SpecTensor == TensorSpecInit /\ [][TensorNext]_vars

(***************************************************************************)
(* Properties                                                              *)
(***************************************************************************)

\* the sinks of a channel directory hold no utterance
ChannelEmpty(c) == \A s \in Sinks : DirOf(s) = c => records[s] = {}

\* C1: when inference() has returned after the loader was exhausted, every
\* channel directory that received no utterance record during the run has
\* been removed (a directory that still exists holds at least one record).
C1_UnusedChannelsRemoved ==
    rpc = "DONE" => \A c \in Channels : ChannelEmpty(c) => c \notin dirs

\* the prune step applied to the current output directory
PruneAgain ==
    Prune([raised |-> "None", dirs |-> dirs, files |-> files,
           records |-> records], output_dict)

\* C2: a run whose streaming loop ended by loader exhaustion always
\* completes FINALIZE and reaches DONE, also when the loader yielded no
\* utterance (no exception is raised in FINALIZE); and running FINALIZE a
\* second time on the resulting directory raises nothing and changes nothing.
C2_FinalizeUnconditionalIdempotent ==
    /\ raised.at # "FINALIZE"
    /\ rpc = "DONE" =>
          /\ PruneAgain.raised = "None"
          /\ PruneAgain.dirs = dirs
          /\ PruneAgain.records = records

\* the latest __call__ invoked the acoustic model and the model returned
ModelReturned ==
    /\ gpc = "ready"
    /\ ncalls > 0
    /\ last.r.model_calls # <<>>
    /\ last.m.raises = "None"

\* C3: with a vocoder configured, when the model's output has attention
\* weights and no waveform, __call__ returns, duration and focus_rate are
\* not None, the vocoder was invoked exactly once with the selected feature
\* and the returned dict carries a wav.
C3_AttentionOutputIsVocoded ==
    (/\ ModelReturned
     /\ singingGenerate.vocoder # "None"
     /\ ~GetIsNone(last.m.out, "att_w")
     /\ GetIsNone(last.m.out, "wav")
     /\ last.m.out.feat_gen = "fg"
     /\ GetIsNone(last.m.out, "pitch"))
    => /\ last.r.raised = "None"
       /\ ~GetIsNone(last.r.output_dict[1], "duration")
       /\ ~GetIsNone(last.r.output_dict[1], "focus_rate")
       /\ Len(last.r.vocoder_calls) = 1
       /\ last.r.vocoder_calls[1].feat =
              SelectInputFeat(singingGenerate, last.m.out).feat
       /\ ~GetIsNone(last.r.output_dict[1], "wav")

\* C4: when the model's output already holds a waveform, __call__ returns
\* without invoking the vocoder (configured or not), duration and
\* focus_rate are None and the returned wav is the model's.
C4_ModelWaveformKept ==
    (ModelReturned /\ ~GetIsNone(last.m.out, "wav"))
    => /\ last.r.raised = "None"
       /\ last.r.vocoder_calls = <<>>
       /\ last.r.output_dict[1].duration = "None"
       /\ last.r.output_dict[1].focus_rate = "None"
       /\ last.r.output_dict[1].wav = last.m.out.wav

\* the model attribute that makes a speaker slot required
NeededBy(self, slot) ==
    CASE slot = "sids"   -> self.svs.spks # "None"
      [] slot = "lids"   -> self.svs.langs # "None"
      [] slot = "spembs" -> self.svs.spk_embed_dim # "None"

\* C5: for each of sids, lids, spembs: if the model needs the slot and the
\* call leaves it None, __call__ raises RuntimeError and neither the
\* preprocessing function, the acoustic model nor the vocoder was invoked.
C5_MissingSlotRaisesFirst ==
    \A slot \in SpeakerSlots :
        (/\ gpc = "ready"
         /\ ncalls > 0
         /\ NeededBy(singingGenerate, slot)
         /\ slot \notin last.a.slots)
        => /\ last.r.raised = "RuntimeError"
           /\ last.r.preprocess_calls = 0
           /\ last.r.model_calls = <<>>
           /\ last.r.vocoder_calls = <<>>
           /\ last.r.output_dict = <<>>

\* a call that lacks only lids, on a model that needs lids, with a dict
\* text and a vocoder (so that all three collaborators would have run)
C5_Witness ==
    /\ gpc = "ready"
    /\ ncalls > 0
    /\ singingGenerate.svs.langs # "None"
    /\ singingGenerate.svs.spks # "None"
    /\ singingGenerate.vocoder # "None"
    /\ last.a.slots = {"sids", "spembs"}
    /\ last.a.text_kind = "dict_label"
    /\ last.r.raised = "RuntimeError"

\* the documented key set of each variant
DocumentedKeys(variant) ==
    CASE variant = "VITS" ->
            {"use_teacher_forcing", "noise_scale", "noise_scale_dur"}
      [] variant = "singing_tacotron" ->
            {"use_teacher_forcing", "threshold", "minlenratio", "maxlenratio",
             "use_att_constraint", "use_dynamic_filter", "forward_window",
             "backward_window"}
      [] OTHER -> {"use_teacher_forcing"}

\* C6: the decode configuration built at construction has exactly the keys
\* documented for the model's variant (VITS, singing_tacotron, other).
C6_DecodeConfKeys ==
    (gpc = "ready" /\ ncalls = 0)
    => DOMAIN singingGenerate.decode_conf
           = DocumentedKeys(singingGenerate.svs.variant)

C6_Witness ==
    /\ gpc = "ready"
    /\ ncalls = 0
    /\ singingGenerate.svs.variant = "singing_tacotron"
    /\ "threshold" \in DOMAIN singingGenerate.decode_conf

\* C7: the configuration passed to the model is the stored configuration
\* with the call's decode_conf on top (its keys win, the other stored keys
\* are kept, nothing else is added), and after every call self.decode_conf
\* equals what construction left.
C7_OverrideMergedStoredKept ==
    /\ gpc = "ready" => singingGenerate.decode_conf = init_conf
    /\ (gpc = "ready" /\ ncalls > 0 /\ last.r.model_calls # <<>>) =>
          LET cfg == last.r.model_calls[1].cfg
              ov  == IF last.a.decode_conf = <<>> THEN EmptyDict
                     ELSE last.a.decode_conf[1]
          IN  /\ DOMAIN cfg = (DOMAIN init_conf) \cup (DOMAIN ov)
              /\ \A k \in DOMAIN ov : cfg[k] = ov[k]
              /\ \A k \in (DOMAIN init_conf) \ (DOMAIN ov) :
                    cfg[k] = init_conf[k]

\* a second call on a VITS model that overrides the stored noise_scale
C7_Witness ==
    /\ gpc = "ready"
    /\ ncalls = 2
    /\ last.a.decode_conf = <<[noise_scale |-> "0.333"]>>
    /\ last.r.model_calls # <<>>
    /\ last.r.model_calls[1].cfg.noise_scale = "0.333"
    /\ last.r.model_calls[1].cfg.noise_scale_dur = "0.8"
    /\ init_conf.noise_scale = "0.667"

\* C8: with batch_size > 1 or ngpu > 1 inference() raises
\* NotImplementedError in its first statements: no model is built, no loader
\* is created, no channel directory and no file is created.
C8_UnsupportedArgsFailFast ==
    (args.batch_size > 1 \/ args.ngpu > 1)
    => /\ ~model_built
       /\ ~loader_built
       /\ dirs = {}
       /\ files = {}
       /\ open_writers = {}
       /\ rpc \in {"check", "ABORTED"}
       /\ rpc = "ABORTED" =>
             raised.exc = "NotImplementedError" /\ raised.at = "check"

C8_Witness ==
    /\ rpc = "ABORTED"
    /\ args.batch_size = 1
    /\ args.ngpu = 2
    /\ raised.exc = "NotImplementedError"

\* C9: if the synthesis call for the k-th utterance raises, that step ends
\* the run with every record and directory as it was before the k-th
\* utterance (nothing of utterance k is written, utterances 1..k-1 stay,
\* all eight directories exist), and nothing is written or deleted
\* afterwards (no later utterance, no prune).
C9_SynthesisFailureAborts ==
    [][ /\ (call_exc' # "None") =>
              /\ rpc' = "ABORTED"
              /\ raised'.at = "synthesize"
              /\ raised'.idx = idx'
              /\ records' = records
              /\ \A s \in Sinks : records'[s] \subseteq 1..(idx' - 1)
              /\ dirs' = Channels
              /\ files' = files
        /\ (call_exc # "None") => UNCHANGED <<records, dirs, files, rpc>>
      ]_vars

\* the call for the second utterance raised after the first was recorded
C9_Witness ==
    /\ rpc = "ABORTED"
    /\ call_exc # "None"
    /\ raised.at = "synthesize"
    /\ raised.idx = 2
    /\ records["norm"] = {1}
    /\ records["wav_scp"] = {1}

\* C10: the six writers opened at run start are open exactly during the
\* streaming loop: once the loop has ended, by loader exhaustion or by an
\* exception of the loader, the call or a write, none of them is open.
C10_WritersClosedOnEveryExit ==
    /\ rpc = "STREAMING" => open_writers = Writers
    /\ rpc \in {"FINALIZE", "DONE", "ABORTED"} => open_writers = {}

\* a write of the second utterance raised after the writers were opened
C10_Witness ==
    /\ rpc = "ABORTED"
    /\ raised.at = "write"
    /\ raised.idx = 2
    /\ files = Writers
    /\ records["norm"] = {1, 2}
    /\ open_writers = {}

\* the feature has length T*L for the instance's L, and T is that length / L
Frames == Len(tin.x) \div tin.discrete_token_layers

WholeFrames == Len(tin.x) % tin.discrete_token_layers = 0

\* tout is the [T, L] tensor with [t][l] = x[at(t, l)] (0-based t, l)
IsFrameMajor ==
    /\ tout.kind = "2d"
    /\ tout.shape = <<Frames, tin.discrete_token_layers>>
    /\ \A t \in 0..(Frames - 1), l \in 0..(tin.discrete_token_layers - 1) :
          tout.m[t + 1][l + 1] = tin.x[t * tin.discrete_token_layers + l + 1]

IsSequenceMajor ==
    /\ tout.kind = "2d"
    /\ tout.shape = <<Frames, tin.discrete_token_layers>>
    /\ \A t \in 0..(Frames - 1), l \in 0..(tin.discrete_token_layers - 1) :
          tout.m[t + 1][l + 1] = tin.x[l * Frames + t + 1]

IsUnreshaped == tout.kind = "1d" /\ tout.v = tin.x

\* C11 as stated: with L > 1 and a flat feature of length T*L the vocoder
\* input always has shape [T, L], frame-major for mix_type "frame" and
\* sequence-major for "sequence"; with L = 1 the feature is passed as it is.
C11_AlwaysFramesByLayers ==
    (tpc = "applied" /\ WholeFrames) =>
        /\ tin.discrete_token_layers > 1 =>
              /\ tout.kind = "2d"
              /\ tout.shape = <<Frames, tin.discrete_token_layers>>
              /\ tin.mix_type = "frame" => IsFrameMajor
              /\ tin.mix_type = "sequence" => IsSequenceMajor
        /\ tin.discrete_token_layers = 1 => IsUnreshaped

\* C11 amended: with L > 1, use_singomd not set and a flat feature of
\* length T*L, the vocoder input is the [T, L] tensor with [t][l] =
\* x[t*L + l] for mix_type "frame" and [t][l] = x[l*T + t] for "sequence";
\* with L = 1 the feature is passed as it is.
C11_FramesByLayers ==
    (tpc = "applied" /\ WholeFrames) =>
        /\ (tin.discrete_token_layers > 1 /\ ~tin.use_singomd) =>
              /\ tin.mix_type = "frame" => IsFrameMajor
              /\ tin.mix_type = "sequence" => IsSequenceMajor
        /\ tin.discrete_token_layers = 1 => IsUnreshaped

\* a 6-long feature reshaped for 2 layers in "sequence" order, on which the
\* two layouts differ
C11_Witness ==
    /\ tpc = "applied"
    /\ tin.x = <<0, 1, 1, 0, 0, 1>>
    /\ tin.discrete_token_layers = 2
    /\ tin.mix_type = "sequence"
    /\ ~tin.use_singomd
    /\ tout.shape = <<3, 2>>
    /\ tout.m = <<<<0, 0>>, <<1, 0>>, <<1, 1>>>>

\* C12: whenever the vocoder is invoked, its feature argument is
\* feat_gen_denorm, unless prefer_normalized_feats is set or the model's
\* output has no (or a None) feat_gen_denorm, and then feat_gen; and it is
\* called with (feature, pitch) iff the output has a non-None pitch, with
\* the feature alone otherwise.
C12_VocoderArguments ==
    (gpc = "ready" /\ ncalls > 0 /\ last.r.vocoder_calls # <<>>) =>
        LET call == last.r.vocoder_calls[1]
            out  == last.m.out
        IN  /\ Len(last.r.vocoder_calls) = 1
            /\ call.feat =
                  IF singingGenerate.prefer_normalized_feats
                     \/ out.feat_gen_denorm \in {"absent", "None"}
                  THEN out.feat_gen ELSE out.feat_gen_denorm
            /\ (call.pitch # "omitted") <=> (out.pitch \notin {"absent", "None"})
            /\ (call.pitch # "omitted") => call.pitch = out.pitch

\* the vocoder was called with the normalized feature by preference,
\* although a denormalized one was there, and with the pitch
C12_Witness ==
    /\ gpc = "ready"
    /\ ncalls > 0
    /\ singingGenerate.prefer_normalized_feats
    /\ last.m.out.feat_gen_denorm = "fgd"
    /\ last.r.vocoder_calls =
          <<[feat |-> "fg", view |-> "flat", pitch |-> "pitch_1d"]>>

\* the key of the synthesis output whose value a sink records
ArtifactOf(sink) ==
    CASE sink \in {"norm", "speech_shape"} -> "feat_gen"
      [] sink = "denorm" -> "feat_gen_denorm"
      [] sink = "durations" -> "duration"
      [] sink = "focus_rates" -> "focus_rate"
      [] sink = "att_ws" -> "att_w"
      [] sink = "probs" -> "prob"
      [] sink \in {"wav_file", "wav_scp"} -> "wav"

\* C13: for every utterance processed without error and every artifact
\* kind, the matching sink holds a record of that utterance iff the
\* synthesis output holds the artifact as non-None (feat_gen -> norm and
\* speech_shape, feat_gen_denorm -> denorm, duration -> durations,
\* focus_rate -> focus_rates, att_w -> att_ws, prob -> probs, wav -> wav file
\* and wav.scp line); a present feat_gen_denorm is written whether or not
\* feat_gen is present.
C13_RecordIffArtifact ==
    [][ (rpc = "STREAMING" /\ rpc' = "STREAMING" /\ idx' = idx + 1) =>
            \A s \in Sinks :
                /\ (idx' \in records'[s]) <=>
                       ~GetIsNone(output_dict'[1], ArtifactOf(s))
                /\ records[s] \subseteq records'[s] ]_vars

\* C14: at the end of the run only channels that received no record are
\* deleted: a sink that held at least one utterance when the loop ended is
\* still there, with the same records, when inference() has returned.
C14_WrittenChannelsSurvive ==
    [][ (rpc = "FINALIZE" /\ rpc' = "DONE") =>
            \A s \in Sinks :
                records[s] # {} =>
                    /\ DirOf(s) \in dirs'
                    /\ records'[s] = records[s] ]_vars

\* the runner called singingGenerate with the stripped batch of the latest
\* pair: no length field, and of each other field the first sequence only
PassedStripped ==
    /\ DOMAIN pair.batch = pair.item.fields \ pair.item.length_fields
    /\ \A k \in DOMAIN pair.batch :
          /\ k \notin {"text_lengths", "label_lengths"}
          /\ pair.batch[k] = <<k, 1>>

\* C15 as stated: for every pair the loader yields, the runner fails an
\* assertion before calling singingGenerate unless the id list has exactly
\* one id; when it does call, the batch passed has no length field and only
\* the first element of each remaining field.
C15_SingleIdAsserted ==
    idx > 0 =>
        /\ pair.item.nkeys # 1 =>
              /\ ~pair.called
              /\ rpc = "ABORTED"
              /\ raised = [exc |-> "AssertionError", at |-> "assert",
                           idx |-> idx]
        /\ pair.called => PassedStripped

\* C15 (amended): for every pair the loader yields, the runner fails an
\* assertion before calling singingGenerate unless the first field of the
\* batch holds exactly one sequence (the number of ids is not tested; an
\* empty id list ends the run with an IndexError, also before the call);
\* when it does call, the batch passed has no length field and only the
\* first element of each remaining field.
C15_SingleSequenceAsserted ==
    idx > 0 =>
        /\ pair.item.bs # 1 =>
              /\ ~pair.called
              /\ rpc = "ABORTED"
              /\ raised = [exc |-> "AssertionError", at |-> "assert",
                           idx |-> idx]
        /\ (pair.item.bs = 1 /\ pair.item.nkeys = 0) =>
              /\ ~pair.called
              /\ rpc = "ABORTED"
              /\ raised = [exc |-> "IndexError", at |-> "key", idx |-> idx]
        /\ (pair.item.bs = 1 /\ pair.item.nkeys > 0) => pair.called
        /\ pair.called => PassedStripped

\* a pair of two ids and a one-sequence batch was synthesized
C15_Witness ==
    /\ idx > 0
    /\ pair.item.nkeys = 2
    /\ pair.item.bs = 1
    /\ pair.called
    /\ pair.batch = [text |-> <<"text", 1>>, label |-> <<"label", 1>>,
                     sids |-> <<"sids", 1>>]
    /\ rpc = "STREAMING"

\* C16: when an utterance's attention weights have a rank other than 2 or
\* 4, the run ends with an error raised before anything of that utterance
\* is written (no norm, denorm, speech_shape, durations or focus_rates
\* record of the failing utterance exists) and no later utterance is
\* processed.
C16_RankErrorBeforeWrites ==
    /\ (/\ idx > 0
        /\ pair.called
        /\ call_exc = "None"
        /\ ~GetIsNone(output_dict[1], "att_w")
        /\ Ndim(output_dict[1].att_w) \notin {2, 4}) =>
            /\ rpc = "ABORTED"
            /\ raised.idx = idx
    /\ (rpc = "ABORTED" /\ raised.at = "write"
        /\ raised.exc = "RuntimeError") =>
            \A s \in {"norm", "denorm", "speech_shape", "durations",
                      "focus_rates"} : raised.idx \notin records[s]

====
